---- MODULE Spec2Model ----
(***************************************************************************)
(* Model of the task dispatcher of src/backend/api_backend.py:             *)
(*   - Task (the dataclass and its status / result / completed_at fields)  *)
(*   - BaseAgent.run, the per-agent admission loop                         *)
(*   - BaseAgent._handle_task, the wrapper around process_task             *)
(*   - CoordinatorAgent._coordinate_workflow, the linear pipeline          *)
(*   - generate_content and execute_zap, the collaborators handlers await  *)
(*   - the HTTP endpoints execute_workflow, get_agents_status and          *)
(*     get_task_details                                                    *)
(*                                                                         *)
(* Everything runs on one asyncio event loop, so a coroutine runs without  *)
(* interruption from the point where it is resumed to its next real        *)
(* suspension.  Each action below is one such uninterrupted stretch.       *)
(* asyncio.Queue.get() on a non-empty queue and put() on an unbounded      *)
(* queue return without suspending, and asyncio.create_task only schedules *)
(* the new coroutine: it starts when the creator next suspends, and the    *)
(* coroutines it created start in creation order (call_soon is FIFO).      *)
(*                                                                         *)
(* A handler suspends in two places only: asyncio.to_thread (line 209,     *)
(* the provider call of generate_content outside demo mode) and the        *)
(* webhook POST of execute_zap (line 350).  A handler that reaches neither *)
(* runs _handle_task from line 396 to line 409 in one stretch: the task    *)
(* goes from pending to completed or failed and no other coroutine sees it *)
(* in_progress.  The source has no function that puts a task on a queue    *)
(* and none that starts run(): the model has the owner of the agents do    *)
(* both, every loop started.                                               *)
(***************************************************************************)
EXTENDS Integers, Sequences, FiniteSets, TLC

(* ---------------------------- bounds ---------------------------------- *)
\* number of Task objects ever created
MaxTasks == 3
\* largest max_concurrent_tasks an AgentConfig is given in the model
MaxCeiling == 2

(* --------------------------- constants -------------------------------- *)
\* two of the agents built by ContentMarketingFramework.initialize
Agents == {"content_creator", "coordinator"}

\* task types used in the model: one ContentCreatorAgent dispatches on, one
\* it does not (it is SeoOptimizerAgent's), and the coordinator's
Types == {"create_blog_post", "optimize_content", "coordinate_workflow"}

\* data['workflow_name'] of a coordinate_workflow task: the one name
\* _coordinate_workflow knows, and one it does not
WorkflowNames == {"full_content_workflow", "newsletter_workflow"}

\* the agents the pipeline calls, in call order
Pipeline == <<"content_creator", "seo_optimizer", "social_media_manager">>

\* the type of the Task the pipeline builds for each of them
StepTypes == <<"create_blog_post", "optimize_content", "schedule_social_post">>

\* values of GOOGLE_API_KEY: unset in a way that leaves it empty, the
\* default 'demo-key' of line 758, and a real key
ApiKeys == {"", "demo-key", "real-key"}

\* the keys for which api_key.startswith('demo-') is true
DemoKeys == {"demo-key"}

\* GoogleGeminiIntegration.__init__: the demo_mode it leaves.  TRUE for an
\* empty or demo- key (line 179); for a real key FALSE, unless
\* genai.configure or GenerativeModel raises (the except of lines 189-193).
GoogleGeminiIntegration(api_key, configure_raises) ==
    IF api_key = "" \/ api_key \in DemoKeys THEN TRUE
    ELSE configure_raises

TaskIds == 1..MaxTasks

\* Python's None (for the string-valued fields)
None == "None"

\* Task.result values.  kind "None" is Python's None, "error" is
\* {"error": str(e)}, "dict" is the dict an ordinary handler returns,
\* "fallback" is that dict with the provider-error text as its content,
\* "unknown_workflow" is {"status": "unknown_workflow"} and "workflow" is
\* {"workflow": name, "steps": [...]}, steps listing the "agent" tags.
Result(kind, steps) == [kind |-> kind, steps |-> steps]

\* what an endpoint of the HTTP API returns; op "None": no call was made
Response(op, workflow, agent, path, task_id, status, entries) ==
    [op |-> op, workflow_name |-> workflow, agent_name |-> agent, path |-> path,
     task_id |-> task_id, status |-> status, entries |-> entries]

NoResponse == Response(None, None, None, None, 0, None, <<>>)

\* an API call that is suspended: its endpoint and its argument
Request(op, workflow, task_id) ==
    [op |-> op, workflow_name |-> workflow, task_id |-> task_id]

NoRequest == Request(None, None, 0)

VARIABLES
    max_concurrent_tasks, \* AgentConfig.max_concurrent_tasks (every agent gets the same)
    has_agents,           \* does the CoordinatorAgent object have an `agents` attribute
    demo_mode,            \* GoogleGeminiIntegration.demo_mode of the shared gemini object
    task_queue,           \* BaseAgent.task_queue, per agent: sequence of task ids
    active_tasks,         \* BaseAgent.active_tasks, per agent: set of task ids (dict keys)
    scheduled,            \* per agent: _handle_task coroutines created, not yet started
    loop,                 \* per agent: where BaseAgent.run is suspended
    next_id,              \* number of Task objects created so far, plus one
    queue_of,             \* per task: the agent whose task_queue it was put on
    type,                 \* Task.type
    status,               \* Task.status
    status_log,           \* per task: the values assigned to Task.status, in order
    result,               \* Task.result
    completed_at,         \* Task.completed_at
    assigned_agent,       \* Task.assigned_agent
    workflow_name,        \* Task.data['workflow_name']
    step,                 \* per task: pipeline steps _coordinate_workflow has invoked
    failed_step,          \* per task: the pipeline step whose handler raised, 0 if none
    requeued,             \* per task: has line 383 put it back on the queue
    started,              \* per task: how many times _handle_task was entered for it
    documents,            \* the tasks for which access_docs has created a document
    outcome,              \* per task: how its process_task call ended
    fault,                \* per task: the collaborator failure its handler's last await met
    request,              \* the API call that is suspended, if one is
    response              \* what the API call of the latest step returned, if it was one

vars == <<max_concurrent_tasks, has_agents, demo_mode, task_queue,
          active_tasks, scheduled, loop, next_id, queue_of, type, status,
          status_log, result, completed_at, assigned_agent, workflow_name,
          step, failed_step, requeued, started, documents, outcome, fault,
          request, response>>

(* ------------------------- handler dispatch --------------------------- *)
\* the task.type values for which the agent's process_task has a branch
SupportedTypes(a) ==
    IF a = "content_creator" THEN {"create_blog_post"}
    ELSE IF a = "coordinator" THEN {"coordinate_workflow"}
    ELSE {}

\* is the task one whose handler is _coordinate_workflow
IsWorkflowTask(a, ty) == a = "coordinator" /\ ty = "coordinate_workflow"

\* coordinate_workflow with each step's call wrapped in a try/except that
\* swallows the exception: the pipeline goes on after a failed step.
coordinate_workflow_continue(name, wired, k, raised) ==
    IF name # "full_content_workflow" THEN "return_unknown"
    ELSE IF k = 0 THEN (IF wired THEN "invoke" ELSE "raise")
    ELSE IF k < Len(Pipeline) THEN "invoke"
    ELSE IF raised THEN "raise"
    ELSE "return_steps"

\* coordinate_workflow that reads self.agents before it tests the name: an
\* unknown name on a coordinator without the attribute raises.
coordinate_workflow_lookup_first(name, wired, k, raised) ==
    IF k = 0 /\ ~wired THEN "raise"
    ELSE IF name # "full_content_workflow" THEN "return_unknown"
    ELSE IF k = 0 THEN "invoke"
    ELSE IF raised THEN "raise"
    ELSE IF k < Len(Pipeline) THEN "invoke"
    ELSE "return_steps"

\* What _coordinate_workflow does after k pipeline steps have been invoked,
\* the k-th of which raised or returned (k = 0: on entry):
\*   "return_unknown"  the name test of line 714 fails, line 736 returns
\*   "raise"           the exception leaves the coroutine: a step's handler
\*                     raised, or self.agents does not exist (line 717)
\*   "invoke"          it awaits the next agent's process_task
\*   "return_steps"    line 727 returns the dict with the three steps
coordinate_workflow(name, wired, k, raised) ==
    IF name # "full_content_workflow" THEN "return_unknown"
    ELSE IF k = 0 THEN (IF wired THEN "invoke" ELSE "raise")
    ELSE IF raised THEN "raise"
    ELSE IF k < Len(Pipeline) THEN "invoke"
    ELSE "return_steps"

\* generate_content without its except clause: the provider's exception
\* leaves the call.
generate_content_propagate(demo, provider_raises) ==
    IF demo THEN "demo_text"
    ELSE IF provider_raises THEN "raise"
    ELSE "response_text"

\* GoogleGeminiIntegration.generate_content: the text it returns.  In demo
\* mode a canned text; else the provider's text, and when the provider call
\* raises the except clause returns the "Error generating content" text.
generate_content(demo, provider_raises) ==
    IF demo THEN "demo_text"
    ELSE IF provider_raises THEN "fallback_text"
    ELSE "response_text"

\* ZapierMCPIntegration.execute_zap: the "status" of the dict it returns.
\* A missing webhook and an exception of the POST both give "error"; the
\* call itself never raises.
execute_zap(webhook_configured, post_raises) ==
    IF ~webhook_configured THEN "error"
    ELSE IF post_raises THEN "error"
    ELSE "executed"

\* the collaborator the handler of a task type awaits
Collaborator(ty) ==
    IF ty \in {"create_blog_post", "optimize_content"} THEN "provider"
    ELSE IF ty = "schedule_social_post" THEN "tool"
    ELSE None

\* Does the handler of a task of type ty return to the event loop: in
\* asyncio.to_thread when the provider is really called (demo mode returns
\* a canned text without an await that suspends), or in the POST to the
\* webhook that initialize() has connected.
suspends(ty, demo) ==
    \/ Collaborator(ty) = "provider" /\ ~demo
    \/ Collaborator(ty) = "tool"

\* The ways the operation can end that the handler of agent a is suspended
\* on, after k pipeline steps were invoked: it returns, the handler raises
\* after it returned, or the collaborator fails.
AwaitOutcomes(a, ty, k) ==
    LET awaited == IF ty \notin SupportedTypes(a) THEN None
                   ELSE IF ~IsWorkflowTask(a, ty) THEN Collaborator(ty)
                   ELSE IF k >= 1 THEN Collaborator(StepTypes[k])
                   ELSE None IN
    {"returns", "raises"} \cup
       (IF awaited = "provider" THEN {"provider_error"}
        ELSE IF awaited = "tool" THEN {"tool_error"}
        ELSE {})

\* The handlers a stretch can still enter, as the values of `early`: the
\* pipeline step (for a task with one handler: 1) whose handler raises
\* before its first await, 0 for none.  oc is None when the stretch is
\* the first of its task.
EarlyRaises(a, ty, k, oc) ==
    IF ty \notin SupportedTypes(a) THEN {0}
    ELSE IF IsWorkflowTask(a, ty) THEN {0} \cup ((k + 1)..Len(Pipeline))
    ELSE IF oc = None THEN {0, 1}
    ELSE {0}

\* does the handler raise when the operation it awaits ends as oc (the
\* provider is called outside demo mode only)
handler_raises(oc) ==
    \/ oc = "raises"
    \/ oc = "provider_error" /\ generate_content(FALSE, TRUE) = "raise"
    \/ oc = "tool_error" /\ execute_zap(TRUE, TRUE) = "raise"

\* What one stretch of process_task did: how it stopped ("await": the
\* handler is suspended; "return" and "raise": process_task ended, with
\* the value for task.result), the pipeline steps invoked so far, the step
\* whose handler raised (0: none) and the types of the handlers that
\* returned during the stretch.
Stretch(stop, value, k, failed, done) ==
    [stop |-> stop, value |-> value, step |-> k, failed_step |-> failed,
     done |-> done]

\* One stretch of _coordinate_workflow, from the point where k steps have
\* been invoked and the k-th has ended (failed = k: it raised): it goes
\* on through the steps whose handlers do not suspend, to the first that
\* does, or to the end of the coroutine.
RECURSIVE coordinate_workflow_stretch(_, _, _, _, _, _, _)
coordinate_workflow_stretch(name, wired, demo, k, failed, early, done) ==
    LET next == coordinate_workflow(name, wired, k, k > 0 /\ failed = k) IN
    IF next = "raise"
    THEN Stretch("raise", Result("error", <<>>), k, failed, done)
    ELSE IF next = "return_unknown"
    THEN Stretch("return", Result("unknown_workflow", <<>>), k, failed, done)
    ELSE IF next = "return_steps"
    THEN Stretch("return", Result("workflow", Pipeline), k, failed, done)
    ELSE IF early = k + 1
    THEN coordinate_workflow_stretch(name, wired, demo, k + 1,
                                     IF failed = 0 THEN k + 1 ELSE failed,
                                     early, done)
    ELSE IF suspends(StepTypes[k + 1], demo)
    THEN Stretch("await", Result("None", <<>>), k + 1, failed, done)
    ELSE coordinate_workflow_stretch(name, wired, demo, k + 1, failed, early,
                                     done \cup {StepTypes[k + 1]})

\* One stretch of process_task of agent a.  oc = None: the call is entered
\* (line 400); else the handler is resumed after the operation it awaits
\* ended as oc, with k pipeline steps invoked.  A type with no branch falls
\* off the end of the if/elif chain, so the call returns None at once.
process_task(a, ty, name, wired, demo, k, oc, early) ==
    IF ty \notin SupportedTypes(a)
    THEN Stretch("return", Result("None", <<>>), 0, 0, {})
    ELSE IF IsWorkflowTask(a, ty)
    THEN IF oc = None
         THEN coordinate_workflow_stretch(name, wired, demo, 0, 0, early, {})
         ELSE IF handler_raises(oc)
         THEN coordinate_workflow_stretch(name, wired, demo, k, k, early, {})
         ELSE coordinate_workflow_stretch(name, wired, demo, k, 0, early,
                                          {StepTypes[k]})
    ELSE IF oc = None
    THEN IF early # 0 THEN Stretch("raise", Result("error", <<>>), 0, 0, {})
         ELSE IF suspends(ty, demo)
         THEN Stretch("await", Result("None", <<>>), 0, 0, {})
         ELSE Stretch("return", Result("dict", <<>>), 0, 0, {ty})
    ELSE IF handler_raises(oc)
    THEN Stretch("raise", Result("error", <<>>), 0, 0, {})
    ELSE IF generate_content(demo, oc = "provider_error") = "fallback_text"
    THEN Stretch("return", Result("fallback", <<>>), 0, 0, {ty})
    ELSE Stretch("return", Result("dict", <<>>), 0, 0, {ty})

\* GoogleA2AIntegration.access_docs("new", operation="create", ...) at the
\* end of _create_blog_post, called for task t: a document is created.
\* done holds the types of the handlers that returned: _create_blog_post
\* gets to the call when it does not raise.
access_docs(docs, t, done) ==
    IF "create_blog_post" \in done THEN docs \cup {t} ELSE docs

(* ------------------------------ Task ---------------------------------- *)
\* The agents after construction, their loops created and not yet run.
\* Every AgentConfig of the source takes the same max_concurrent_tasks (the
\* dataclass default); the model tries each value up to MaxCeiling.
\* BaseAgent.__init__ gives an agent no `agents` attribute and
\* initialize() assigns none to the coordinator (has_agents = FALSE); TRUE
\* is a coordinator whose owner has assigned it the registry of agents.
\* The one GoogleGeminiIntegration that the agents share is built from
\* GOOGLE_API_KEY.
Init ==
    /\ max_concurrent_tasks \in 1..MaxCeiling
    /\ has_agents \in BOOLEAN
    /\ demo_mode \in {GoogleGeminiIntegration(key, raises) :
                         key \in ApiKeys, raises \in BOOLEAN}
    /\ task_queue = [a \in Agents |-> <<>>]
    /\ active_tasks = [a \in Agents |-> {}]
    /\ scheduled = [a \in Agents |-> <<>>]
    /\ loop = [a \in Agents |-> "runnable"]
    /\ next_id = 1
    /\ queue_of = [t \in TaskIds |-> None]
    /\ type = [t \in TaskIds |-> None]
    /\ status = [t \in TaskIds |-> None]
    /\ status_log = [t \in TaskIds |-> <<>>]
    /\ result = [t \in TaskIds |-> Result("None", <<>>)]
    /\ completed_at = [t \in TaskIds |-> None]
    /\ assigned_agent = [t \in TaskIds |-> None]
    /\ workflow_name = [t \in TaskIds |-> None]
    /\ step = [t \in TaskIds |-> 0]
    /\ failed_step = [t \in TaskIds |-> 0]
    /\ requeued = [t \in TaskIds |-> FALSE]
    /\ started = [t \in TaskIds |-> 0]
    /\ documents = {}
    /\ outcome = [t \in TaskIds |-> None]
    /\ fault = [t \in TaskIds |-> None]
    /\ request = NoRequest
    /\ response = NoResponse

\* submit on a queue built as asyncio.Queue(maxsize=max_concurrent_tasks):
\* put_nowait raises QueueFull when the backlog has reached the ceiling.
submit_bounded(a, ty, name) ==
    /\ next_id <= MaxTasks
    /\ Len(task_queue[a]) < max_concurrent_tasks
    /\ LET t == next_id IN
       /\ next_id' = next_id + 1
       /\ queue_of' = [queue_of EXCEPT ![t] = a]
       /\ type' = [type EXCEPT ![t] = ty]
       /\ workflow_name' = [workflow_name EXCEPT ![t] = name]
       /\ status' = [status EXCEPT ![t] = "pending"]
       /\ status_log' = [status_log EXCEPT ![t] = <<"pending">>]
       /\ task_queue' = [task_queue EXCEPT ![a] = Append(@, t)]
       /\ loop' = [loop EXCEPT ![a] = IF @ = "in_get" THEN "runnable" ELSE @]
    /\ UNCHANGED <<max_concurrent_tasks, has_agents, demo_mode, active_tasks,
                   scheduled, result, completed_at, assigned_agent, step,
                   failed_step, requeued, outcome, fault, started, documents,
                   request>>
    /\ response' = NoResponse

\* Task(id, type, priority, data) followed by task_queue.put_nowait(task):
\* the dataclass defaults, then the task goes to the tail of the queue and
\* a loop suspended in get() is woken.  The queue is asyncio.Queue() with
\* no maxsize, so put_nowait cannot raise QueueFull, and the source has no
\* state in which an agent is shut down.  (The guard on next_id only keeps
\* the number of Task objects of the model finite.)
submit(a, ty, name) ==
    /\ next_id <= MaxTasks
    /\ LET t == next_id IN
       /\ next_id' = next_id + 1
       /\ queue_of' = [queue_of EXCEPT ![t] = a]
       /\ type' = [type EXCEPT ![t] = ty]
       /\ workflow_name' = [workflow_name EXCEPT ![t] = name]
       /\ status' = [status EXCEPT ![t] = "pending"]
       /\ status_log' = [status_log EXCEPT ![t] = <<"pending">>]
       /\ task_queue' = [task_queue EXCEPT ![a] = Append(@, t)]
       /\ loop' = [loop EXCEPT ![a] = IF @ = "in_get" THEN "runnable" ELSE @]
    /\ UNCHANGED <<max_concurrent_tasks, has_agents, demo_mode, active_tasks,
                   scheduled, result, completed_at, assigned_agent, step,
                   failed_step, requeued, outcome, fault, started, documents,
                   request>>
    /\ response' = NoResponse

(* --------------------------- BaseAgent.run ---------------------------- *)
\* run_iterations with the put() of line 383 left out: at capacity the
\* popped task is dropped.
RECURSIVE run_iterations_drop(_, _, _, _)
run_iterations_drop(q, sch, nactive, ceiling) ==
    IF q = <<>>
    THEN [queue |-> q, scheduled |-> sch, loop |-> "in_get", requeue |-> {}]
    ELSE LET task == Head(q) IN
         IF nactive >= ceiling
         THEN [queue |-> Tail(q), scheduled |-> sch,
               loop |-> "in_sleep", requeue |-> {}]
         ELSE run_iterations_drop(Tail(q), Append(sch, task), nactive, ceiling)

\* run_iterations over a LifoQueue: get() takes the newest task.
RECURSIVE run_iterations_lifo(_, _, _, _)
run_iterations_lifo(q, sch, nactive, ceiling) ==
    IF q = <<>>
    THEN [queue |-> q, scheduled |-> sch, loop |-> "in_get", requeue |-> {}]
    ELSE LET task == q[Len(q)]
             rest == SubSeq(q, 1, Len(q) - 1) IN
         IF nactive >= ceiling
         THEN [queue |-> Append(rest, task), scheduled |-> sch,
               loop |-> "in_sleep", requeue |-> {task}]
         ELSE run_iterations_lifo(rest, Append(sch, task), nactive, ceiling)

\* run_iterations without the continue of line 385: the task put back on
\* the queue at capacity is handed to a handler as well.
RECURSIVE run_iterations_no_continue(_, _, _, _)
run_iterations_no_continue(q, sch, nactive, ceiling) ==
    IF q = <<>>
    THEN [queue |-> q, scheduled |-> sch, loop |-> "in_get", requeue |-> {}]
    ELSE LET task == Head(q) IN
         IF nactive >= ceiling
         THEN [queue |-> Append(Tail(q), task), scheduled |-> Append(sch, task),
               loop |-> "in_sleep", requeue |-> {task}]
         ELSE run_iterations_no_continue(Tail(q), Append(sch, task), nactive, ceiling)

\* run_iterations that puts the task it popped at capacity back at the
\* head of the queue.
RECURSIVE run_iterations_requeue_front(_, _, _, _)
run_iterations_requeue_front(q, sch, nactive, ceiling) ==
    IF q = <<>>
    THEN [queue |-> q, scheduled |-> sch, loop |-> "in_get", requeue |-> {}]
    ELSE LET task == Head(q) IN
         IF nactive >= ceiling
         THEN [queue |-> <<task>> \o Tail(q), scheduled |-> sch,
               loop |-> "in_sleep", requeue |-> {task}]
         ELSE run_iterations_requeue_front(Tail(q), Append(sch, task), nactive, ceiling)

\* One uninterrupted stretch of the while-True loop, from a state with
\* pending queue q and created-but-unstarted handlers sch: it iterates
\* until get() finds the queue empty or the capacity test sends it to
\* asyncio.sleep(1).  active_tasks does not change during the stretch,
\* because the handlers it creates have not started yet.
RECURSIVE run_iterations(_, _, _, _)
run_iterations(q, sch, nactive, ceiling) ==
    IF q = <<>>
    THEN [queue |-> q, scheduled |-> sch, loop |-> "in_get", requeue |-> {}]
    ELSE LET task == Head(q) IN
         IF nactive >= ceiling
         THEN [queue |-> Append(Tail(q), task), scheduled |-> sch,
               loop |-> "in_sleep", requeue |-> {task}]
         ELSE run_iterations(Tail(q), Append(sch, task), nactive, ceiling)

\* run with `await self._handle_task(task)` in the place of create_task:
\* the loop goes on only when no handler of the agent is in flight.
run_serial(a) ==
    /\ loop[a] \in {"runnable", "in_sleep"}
    /\ scheduled[a] = <<>>
    /\ active_tasks[a] = {}
    /\ LET r == run_iterations(task_queue[a], scheduled[a],
                               Cardinality(active_tasks[a]),
                               max_concurrent_tasks) IN
       /\ task_queue' = [task_queue EXCEPT ![a] = r.queue]
       /\ scheduled' = [scheduled EXCEPT ![a] = r.scheduled]
       /\ loop' = [loop EXCEPT ![a] = r.loop]
       /\ requeued' = [t \in TaskIds |-> requeued[t] \/ t \in r.requeue]
    /\ UNCHANGED <<max_concurrent_tasks, has_agents, demo_mode, active_tasks,
                   next_id, queue_of, type, status, status_log, result,
                   completed_at, assigned_agent, workflow_name, step,
                   failed_step, outcome, fault, started, documents, request>>
    /\ response' = NoResponse

\* The loop is resumed (first start, woken in get(), or sleep(1) over).
\* Handlers it created before it suspended are ahead of it in the event
\* loop's ready queue, so they have started by now.
run(a) ==
    /\ loop[a] \in {"runnable", "in_sleep"}
    /\ scheduled[a] = <<>>
    /\ LET r == run_iterations(task_queue[a], scheduled[a],
                               Cardinality(active_tasks[a]),
                               max_concurrent_tasks) IN
       /\ task_queue' = [task_queue EXCEPT ![a] = r.queue]
       /\ scheduled' = [scheduled EXCEPT ![a] = r.scheduled]
       /\ loop' = [loop EXCEPT ![a] = r.loop]
       /\ requeued' = [t \in TaskIds |-> requeued[t] \/ t \in r.requeue]
    /\ UNCHANGED <<max_concurrent_tasks, has_agents, demo_mode, active_tasks,
                   next_id, queue_of, type, status, status_log, result,
                   completed_at, assigned_agent, workflow_name, step,
                   failed_step, outcome, fault, started, documents, request>>
    /\ response' = NoResponse

(* ----------------------- BaseAgent._handle_task ----------------------- *)
\* the try branch after process_task returned value v (lines 401-403);
\* docs is the set of documents the handler leaves
handle_task_try(t, v, docs) ==
    /\ result' = [result EXCEPT ![t] = v]
    /\ status' = [status EXCEPT ![t] = "completed"]
    /\ completed_at' = [completed_at EXCEPT ![t] = "now"]
    /\ documents' = docs

\* handle_task_except that puts the task back to pending to be retried
handle_task_except_retry(t, v, docs) ==
    /\ status' = [status EXCEPT ![t] = "pending"]
    /\ result' = [result EXCEPT ![t] = v]
    /\ documents' = docs
    /\ UNCHANGED completed_at

\* handle_task_except with a rollback: the documents made for the task
\* are taken back
handle_task_except_rollback(t, v, docs) ==
    /\ status' = [status EXCEPT ![t] = "failed"]
    /\ result' = [result EXCEPT ![t] = v]
    /\ documents' = docs \ {t}
    /\ UNCHANGED completed_at

\* the except branch after process_task raised (lines 405-407)
handle_task_except(t, v, docs) ==
    /\ status' = [status EXCEPT ![t] = "failed"]
    /\ result' = [result EXCEPT ![t] = v]
    /\ documents' = docs
    /\ UNCHANGED completed_at

\* handle_task_finally without the del
handle_task_finally_keep(a, t, active) ==
    active_tasks' = active

\* handle_task_finally that empties the dict instead of deleting one key
handle_task_finally_clear(a, t, active) ==
    active_tasks' = [active EXCEPT ![a] = {}]

\* the finally branch (line 409); active is active_tasks of every agent
\* as line 396 left it
handle_task_finally(a, t, active) ==
    active_tasks' = [active EXCEPT ![a] = @ \ {t}]

\* What _handle_task of task t does with one stretch r of process_task.
\* When the handler suspended, the task stays in_progress and in
\* active_tasks; when process_task ended, lines 401-409 run in the same
\* stretch.  oc is how the operation the stretch resumed from ended, log
\* the values assigned to task.status up to line 397.
handle_task_stretch(a, t, r, oc, active, log) ==
    LET docs == access_docs(documents, t, r.done) IN
    /\ step' = [step EXCEPT ![t] = r.step]
    /\ failed_step' = [failed_step EXCEPT ![t] =
           IF @ = 0 THEN r.failed_step ELSE @]
    /\ IF r.stop = "await"
       THEN /\ status' = [status EXCEPT ![t] = "in_progress"]
            /\ status_log' = [status_log EXCEPT ![t] = log]
            /\ active_tasks' = active
            /\ documents' = docs
            /\ UNCHANGED <<result, completed_at, outcome, fault>>
       ELSE /\ IF r.stop = "raise"
               THEN handle_task_except(t, r.value, docs)
               ELSE handle_task_try(t, r.value, docs)
            /\ status_log' = [status_log EXCEPT ![t] = Append(log, status'[t])]
            /\ outcome' = [outcome EXCEPT ![t] =
                   IF r.stop = "raise" THEN "raised" ELSE "returned"]
            /\ fault' = [fault EXCEPT ![t] =
                   IF oc \in {"provider_error", "tool_error"} /\ r.step = step[t]
                   THEN oc ELSE @]
            /\ handle_task_finally(a, t, active)

\* handle_task_begin with a pipeline whose first step is admitted by its
\* target agent: the workflow task takes a slot in content_creator's
\* active_tasks.
handle_task_begin_admit_target(a, early) ==
    /\ scheduled[a] # <<>>
    /\ LET t == Head(scheduled[a])
           r == process_task(a, type[t], workflow_name[t], has_agents,
                             demo_mode, 0, None, early) IN
       /\ early \in EarlyRaises(a, type[t], 0, None)
       /\ scheduled' = [scheduled EXCEPT ![a] = Tail(@)]
       /\ started' = [started EXCEPT ![t] = @ + 1]
       /\ handle_task_stretch(a, t, r, None,
              [b \in Agents |->
                  IF b = a \/ (r.step >= 1 /\ b = Pipeline[1])
                  THEN active_tasks[b] \cup {t} ELSE active_tasks[b]],
              Append(status_log[t], "in_progress"))
    /\ UNCHANGED <<max_concurrent_tasks, has_agents, demo_mode, task_queue,
                   loop, next_id, queue_of, type, assigned_agent,
                   workflow_name, requeued, request>>
    /\ response' = NoResponse

\* The oldest created handler of agent a starts: lines 396-397, then it
\* enters process_task and runs to the first suspension of the handler;
\* a handler that does not suspend runs to line 409 here.  early names the
\* handler that raises before its first await, if one does.
handle_task_begin(a, early) ==
    /\ scheduled[a] # <<>>
    /\ LET t == Head(scheduled[a])
           r == process_task(a, type[t], workflow_name[t], has_agents,
                             demo_mode, 0, None, early) IN
       /\ early \in EarlyRaises(a, type[t], 0, None)
       /\ scheduled' = [scheduled EXCEPT ![a] = Tail(@)]
       /\ started' = [started EXCEPT ![t] = @ + 1]
       /\ handle_task_stretch(a, t, r, None,
              [active_tasks EXCEPT ![a] = @ \cup {t}],
              Append(status_log[t], "in_progress"))
    /\ UNCHANGED <<max_concurrent_tasks, has_agents, demo_mode, task_queue,
                   loop, next_id, queue_of, type, assigned_agent,
                   workflow_name, requeued, request>>
    /\ response' = NoResponse

\* coordinate_workflow_step with a retry: a step whose handler raised is
\* invoked again.
coordinate_workflow_step_retry(t, oc, early) ==
    /\ t \in active_tasks["coordinator"]
    /\ status[t] = "in_progress"
    /\ IsWorkflowTask("coordinator", type[t])
    /\ step[t] >= 1
    /\ oc \in AwaitOutcomes("coordinator", type[t], step[t])
    /\ early \in EarlyRaises("coordinator", type[t], step[t], oc)
    /\ LET r == IF handler_raises(oc)
                THEN Stretch("await", Result("None", <<>>), step[t], step[t], {})
                ELSE process_task("coordinator", type[t], workflow_name[t],
                                  has_agents, demo_mode, step[t], oc, early) IN
       /\ r.stop = "await"
       /\ handle_task_stretch("coordinator", t, r, oc, active_tasks, status_log[t])
    /\ UNCHANGED <<max_concurrent_tasks, has_agents, demo_mode, task_queue,
                   scheduled, loop, next_id, queue_of, type, assigned_agent,
                   workflow_name, requeued, started, request>>
    /\ response' = NoResponse

\* The pipeline step that task t's _coordinate_workflow awaits ends as oc
\* and the coroutine goes on to the next agent's process_task (lines
\* 717-725), whose handler suspends.  The call is direct: no queue and no
\* active_tasks of any agent is touched.
coordinate_workflow_step(t, oc, early) ==
    /\ t \in active_tasks["coordinator"]
    /\ status[t] = "in_progress"
    /\ IsWorkflowTask("coordinator", type[t])
    /\ step[t] >= 1
    /\ oc \in AwaitOutcomes("coordinator", type[t], step[t])
    /\ early \in EarlyRaises("coordinator", type[t], step[t], oc)
    /\ LET r == process_task("coordinator", type[t], workflow_name[t],
                             has_agents, demo_mode, step[t], oc, early) IN
       /\ r.stop = "await"
       /\ handle_task_stretch("coordinator", t, r, oc, active_tasks, status_log[t])
    /\ UNCHANGED <<max_concurrent_tasks, has_agents, demo_mode, task_queue,
                   scheduled, loop, next_id, queue_of, type, assigned_agent,
                   workflow_name, requeued, started, request>>
    /\ response' = NoResponse

\* The operation that the handler of task t awaits ends as oc, and
\* process_task returns or raises in the stretch that follows:
\* _handle_task runs to its end.  A pipeline that suspends again does not
\* end here: that is coordinate_workflow_step.
handle_task_end(a, t, oc, early) ==
    /\ t \in active_tasks[a]
    /\ status[t] = "in_progress"
    /\ oc \in AwaitOutcomes(a, type[t], step[t])
    /\ early \in EarlyRaises(a, type[t], step[t], oc)
    /\ LET r == process_task(a, type[t], workflow_name[t], has_agents,
                             demo_mode, step[t], oc, early) IN
       /\ r.stop # "await"
       /\ handle_task_stretch(a, t, r, oc, active_tasks, status_log[t])
    /\ UNCHANGED <<max_concurrent_tasks, has_agents, demo_mode, task_queue,
                   scheduled, loop, next_id, queue_of, type, assigned_agent,
                   workflow_name, requeued, started, request>>
    /\ response' = NoResponse

(* ------------------------------ HTTP API ------------------------------ *)
\* framework.agents after initialize(): the keys, in insertion order
Registry ==
    <<"content_strategist", "content_creator", "seo_optimizer",
      "social_media_manager", "analytics_agent", "coordinator">>

RegisteredNames == {Registry[i] : i \in 1..Len(Registry)}

\* workflow_mapping.get(workflow_name, "content_strategist")
workflow_mapping(name) ==
    CASE name = "content_creation_workflow" -> "content_creator"
      [] name = "seo_optimization_workflow" -> "seo_optimizer"
      [] name = "social_media_workflow" -> "social_media_manager"
      [] name = "analytics_workflow" -> "analytics_agent"
      [] OTHER -> "content_strategist"

\* str(uuid.uuid4()): a fresh id, the id of no Task object
uuid4 == 0

\* the rows of the tasks table: the source has no INSERT INTO tasks
tasks_table == {}

\* len(agent.active_tasks) of a registered agent; the agents of the registry
\* that the model gives no queue never have a task in flight
active_task_count(name) ==
    IF name \in Agents THEN Cardinality(active_tasks[name]) ELSE 0

\* one AgentStatus of the list get_agents_status builds
AgentStatus(name) == [name |-> name, active_tasks |-> active_task_count(name)]

\* the agent objects execute_workflow and the handlers call share one
\* GoogleGeminiIntegration, so a call of generate_content suspends (in
\* asyncio.to_thread) exactly when that object is not in demo mode

\* the TaskResponse of POST /workflows/execute: the name is mapped to an
\* agent, a name with no mapping to content_strategist; the prompt goes to
\* that agent's generate_content, or straight to the provider when the
\* agent is not in the registry; a fresh task id comes back with status
\* "queued".  No Task is created and no queue is touched.
TaskResponse(name) ==
    LET agent_name == workflow_mapping(name)
        path == IF agent_name \in RegisteredNames THEN "agent.generate_content"
                ELSE "gemini.generate_content" IN
    Response("execute_workflow", name, agent_name, path, uuid4, "queued", <<>>)

\* ContentMarketingFramework.execute_workflow with the endpoint around it
\* (POST /workflows/execute), up to the first suspension: in demo mode
\* generate_content returns at once and so does the call; else the call is
\* suspended in asyncio.to_thread.  The client makes one call at a time.
execute_workflow(name) ==
    /\ request = NoRequest
    /\ IF demo_mode
       THEN /\ response' = TaskResponse(name)
            /\ request' = NoRequest
       ELSE /\ request' = Request("execute_workflow", name, 0)
            /\ response' = NoResponse
    /\ UNCHANGED <<max_concurrent_tasks, has_agents, demo_mode, task_queue,
                   active_tasks, scheduled, loop, next_id, queue_of, type,
                   status, status_log, result, completed_at, assigned_agent,
                   workflow_name, step, failed_step, requeued, outcome, fault,
                   started, documents>>

\* the provider call of a suspended execute_workflow has ended (if it
\* failed, generate_content has returned the fallback text): lines 904-909
\* and the return of the endpoint
execute_workflow_resume ==
    /\ request.op = "execute_workflow"
    /\ response' = TaskResponse(request.workflow_name)
    /\ request' = NoRequest
    /\ UNCHANGED <<max_concurrent_tasks, has_agents, demo_mode, task_queue,
                   active_tasks, scheduled, loop, next_id, queue_of, type,
                   status, status_log, result, completed_at, assigned_agent,
                   workflow_name, step, failed_step, requeued, outcome, fault,
                   started, documents>>

\* GET /agents/status: one AgentStatus per item of framework.agents, then
\* one more for framework.coordinator.  The endpoint awaits nothing.
get_agents_status ==
    /\ request = NoRequest
    /\ LET agents_status ==
              [i \in 1..Len(Registry) |-> AgentStatus(Registry[i])] \o
              <<AgentStatus("coordinator")>> IN
       response' = Response("get_agents_status", None, None, None, 0, None,
                            agents_status)
    /\ UNCHANGED <<max_concurrent_tasks, has_agents, demo_mode, task_queue,
                   active_tasks, scheduled, loop, next_id, queue_of, type,
                   status, status_log, result, completed_at, assigned_agent,
                   workflow_name, step, failed_step, requeued, outcome, fault,
                   started, documents, request>>

\* uuid.UUID(task_id) of line 1095 accepts the id: the id execute_workflow
\* returned is the text of a UUID; the ids the model gives its Task
\* objects stand for short strings such as the '1' that src/test_api.py
\* asks for, which uuid.UUID rejects with ValueError
is_uuid(task_id) == task_id = uuid4

\* lines 1094-1098 with a database pool: the conversion of the id, then
\* the row of the tasks table or {"error": "Task not found"}
task_details(task_id) ==
    IF ~is_uuid(task_id) THEN "ValueError"
    ELSE IF task_id \in tasks_table THEN "row"
    ELSE "Task not found"

\* GET /tasks/{task_id}, up to the first suspension.  Without a database
\* pool it answers {"error": "Task not found"} at once.  With a pool it
\* awaits pool.acquire() and conn.fetchrow(): waits says whether one of
\* them returns to the event loop before the answer.
get_task_details(task_id, db_pool, waits) ==
    /\ request = NoRequest
    /\ waits => db_pool
    /\ IF waits
       THEN /\ request' = Request("get_task_details", None, task_id)
            /\ response' = NoResponse
       ELSE /\ response' = Response("get_task_details", None, None, None, task_id,
                                    IF db_pool THEN task_details(task_id)
                                    ELSE "Task not found", <<>>)
            /\ request' = NoRequest
    /\ UNCHANGED <<max_concurrent_tasks, has_agents, demo_mode, task_queue,
                   active_tasks, scheduled, loop, next_id, queue_of, type,
                   status, status_log, result, completed_at, assigned_agent,
                   workflow_name, step, failed_step, requeued, outcome, fault,
                   started, documents>>

\* the database has answered a suspended get_task_details
get_task_details_resume ==
    /\ request.op = "get_task_details"
    /\ response' = Response("get_task_details", None, None, None,
                            request.task_id, task_details(request.task_id), <<>>)
    /\ request' = NoRequest
    /\ UNCHANGED <<max_concurrent_tasks, has_agents, demo_mode, task_queue,
                   active_tasks, scheduled, loop, next_id, queue_of, type,
                   status, status_log, result, completed_at, assigned_agent,
                   workflow_name, step, failed_step, requeued, outcome, fault,
                   started, documents>>

(* --------------------------- specification ---------------------------- *)
\* the tasks created in the model: <<agent, type, workflow_name>>
Submissions ==
    {<<"content_creator", "create_blog_post", None>>,
     <<"content_creator", "optimize_content", None>>} \cup
    {<<"coordinator", "coordinate_workflow", n>> : n \in WorkflowNames}

\* how an awaited operation can end
Outcomes == {"returns", "raises", "provider_error", "tool_error"}

\* the handlers that can raise before their first await: none, or the
\* handler of a pipeline step
Early == 0..Len(Pipeline)

Next ==
    \/ \E s \in Submissions : submit(s[1], s[2], s[3])
    \/ \E a \in Agents : run(a)
    \/ \E a \in Agents, early \in Early : handle_task_begin(a, early)
    \/ \E t \in TaskIds, oc \in Outcomes, early \in Early :
          coordinate_workflow_step(t, oc, early)
    \/ \E a \in Agents, t \in TaskIds, oc \in Outcomes, early \in Early :
          handle_task_end(a, t, oc, early)

Spec == Init /\ [][Next]_vars

\* The event loop runs every ready coroutine, so a resumed admission loop
\* and a created handler do run; and the operations handlers await are
\* taken to end (they return or raise).
Fairness ==
    /\ \A a \in Agents : WF_vars(run(a))
    /\ \A a \in Agents : WF_vars(\E early \in Early : handle_task_begin(a, early))
    /\ \A t \in TaskIds :
          WF_vars(\E oc \in Outcomes, early \in Early :
                     coordinate_workflow_step(t, oc, early))
    /\ \A a \in Agents, t \in TaskIds :
          WF_vars(\E oc \in Outcomes, early \in Early :
                     handle_task_end(a, t, oc, early))

FairSpec == Spec /\ Fairness

\* The event loop runs every ready coroutine, and nothing more: the
\* operations that handlers await may never end.
LoopFairness ==
    /\ \A a \in Agents : WF_vars(run(a))
    /\ \A a \in Agents : WF_vars(\E early \in Early : handle_task_begin(a, early))

LoopFairSpec == Spec /\ LoopFairness

\* workflow names given to POST /workflows/execute: one that
\* workflow_mapping has and one it has not (the coordinator's workflow)
RequestedWorkflows ==
    {"content_creation_workflow", "full_content_workflow"}

\* task ids given to GET /tasks/{task_id}: the id execute_workflow
\* returned and the id of the first Task ('1', the id src/test_api.py
\* asks for)
RequestedIds == {uuid4, 1}

\* the agents at work and the HTTP API called at any moment by a client
\* that waits for the answer to one call before it makes the next
ApiNext ==
    \/ Next
    \/ \E w \in RequestedWorkflows : execute_workflow(w)
    \/ execute_workflow_resume
    \/ get_agents_status
    \/ \E id \in RequestedIds, db_pool \in BOOLEAN, waits \in BOOLEAN :
          get_task_details(id, db_pool, waits)
    \/ get_task_details_resume

ApiSpec == Init /\ [][ApiNext]_vars

TypeOK ==
    /\ max_concurrent_tasks \in 1..MaxCeiling
    /\ \A a \in Agents : active_tasks[a] \subseteq TaskIds
    /\ loop \in [Agents -> {"runnable", "in_get", "in_sleep"}]
    /\ status \in [TaskIds -> {None, "pending", "in_progress", "completed", "failed"}]
    /\ step \in [TaskIds -> 0..Len(Pipeline)]
    /\ fault \in [TaskIds -> {None, "provider_error", "tool_error"}]
    /\ started \in [TaskIds -> 0..1]
    /\ demo_mode \in BOOLEAN
    /\ \A t \in TaskIds : Len(status_log[t]) <= 3
    /\ request.op \in {None, "execute_workflow", "get_task_details"}
    /\ documents \subseteq TaskIds

(* ------------------------------ claims -------------------------------- *)
Terminal == {"completed", "failed"}

\* C1: for every agent, the number of tasks in active_tasks never exceeds
\* max_concurrent_tasks.
C1_InFlightWithinCeiling ==
    \A a \in Agents : Cardinality(active_tasks[a]) <= max_concurrent_tasks

\* is the sequence p the beginning of the sequence q
IsPrefix(p, q) == Len(p) <= Len(q) /\ SubSeq(q, 1, Len(p)) = p

\* C2: a task's status only moves forward: the values assigned to it, in
\* order, are pending, in_progress, then completed or failed, each at most
\* once; nothing is assigned after a terminal status, pending is never
\* assigned again and a terminal status is never assigned to a task that
\* was not set in_progress first.  The status is the last value assigned.
C2_StatusForward ==
    \A t \in TaskIds :
       /\ \E x \in Terminal :
             IsPrefix(status_log[t], <<"pending", "in_progress", x>>)
       /\ status[t] = IF status_log[t] = <<>> THEN None
                      ELSE status_log[t][Len(status_log[t])]

\* one task has gone all the way to completed and another to failed
C2_Witness ==
    \E t, u \in TaskIds : status[t] = "completed" /\ status[u] = "failed"

\* C3: every task that is in_progress eventually is completed or failed and
\* out of active_tasks, when the operations its handler awaits end.
C3_AdmittedTerminates ==
    \A t \in TaskIds :
       (status[t] = "in_progress") ~>
          (status[t] \in Terminal /\ \A a \in Agents : t \notin active_tasks[a])

\* a handler has ended while another task of the same agent is in flight
C3_Witness ==
    \E t, u \in TaskIds :
       /\ outcome[t] # None /\ status[t] \in Terminal
       /\ queue_of[t] = queue_of[u] /\ status[u] = "in_progress"
       /\ t \notin active_tasks[queue_of[t]]

\* C4: every task put on the queue of an agent is eventually admitted (it
\* leaves pending), also when the agent is saturated, the task was requeued
\* and later tasks are put on the same queue.
C4_NoStarvation ==
    \A t \in TaskIds : (status[t] = "pending") ~> (status[t] # "pending")

\* a task that was requeued at capacity, with a later task behind it on the
\* same queue, has been admitted
C4_Witness ==
    \E t, u \in TaskIds :
       /\ t < u /\ queue_of[t] = queue_of[u] /\ queue_of[t] # None
       /\ requeued[t] /\ status[t] \notin {None, "pending"}

\* C5: when a task's handler raises, the task becomes failed with an error
\* result and leaves active_tasks; the loop, the queue, the created
\* handlers of the other tasks and every other task's status, result and
\* membership of active_tasks are as before.
C5_FailureIsolated ==
    [][\A t \in TaskIds :
          (outcome[t] = None /\ outcome'[t] = "raised") =>
             /\ status'[t] = "failed"
             /\ result'[t].kind = "error"
             /\ \A a \in Agents : t \notin active_tasks'[a]
             /\ loop' = loop /\ task_queue' = task_queue
             /\ \A a \in Agents :
                   scheduled'[a] = SelectSeq(scheduled[a], LAMBDA u : u # t)
             /\ \A u \in TaskIds \ {t} :
                   /\ status'[u] = status[u]
                   /\ result'[u] = result[u]
                   /\ \A a \in Agents :
                         (u \in active_tasks'[a]) <=> (u \in active_tasks[a])]_vars

\* a handler has raised while another task of the same agent is in flight
C5_Witness ==
    \E t, u \in TaskIds :
       /\ outcome[t] = "raised" /\ status[t] = "failed"
       /\ queue_of[u] = queue_of[t] /\ u \in active_tasks[queue_of[t]]

\* C6: a task whose type its agent does not support ends failed with an
\* error result, never completed with a None result.
C6_UnsupportedTypeFails ==
    \A t \in TaskIds :
       (/\ queue_of[t] # None
        /\ type[t] \notin SupportedTypes(queue_of[t])
        /\ status[t] \in Terminal)
       => (status[t] = "failed" /\ result[t].kind = "error")

\* C7: FIFO admission.  Task ids are given in submission order, so for
\* tasks A < B of one agent, neither requeued, B is not in_progress (or
\* beyond) while A is still pending.
C7_FifoAdmission ==
    \A A, B \in TaskIds :
       (/\ A < B /\ queue_of[A] # None /\ queue_of[A] = queue_of[B]
        /\ ~requeued[A] /\ ~requeued[B]
        /\ status[B] # "pending")
       => status[A] # "pending"

\* two tasks of one agent, neither requeued, are both admitted
C7_Witness ==
    \E A, B \in TaskIds :
       /\ A < B /\ queue_of[A] # None /\ queue_of[A] = queue_of[B]
       /\ ~requeued[A] /\ ~requeued[B]
       /\ status[A] = "in_progress" /\ status[B] = "in_progress"

\* C8: completed_at is set if and only if the status is completed or failed.
C8_CompletedAtIffTerminal ==
    \A t \in TaskIds : (completed_at[t] # None) <=> (status[t] \in Terminal)

\* C9: workflow fail-fast.  Once the handler of a pipeline step has raised,
\* no later step is invoked (the count of invoked steps stays at the failed
\* step) and the workflow task is failed.
C9_WorkflowFailFast ==
    \A t \in TaskIds :
       failed_step[t] # 0 => (step[t] = failed_step[t] /\ status[t] = "failed")

\* step 2 of the three raised
C9_Witness ==
    \E t \in TaskIds :
       failed_step[t] = 2 /\ step[t] = 2 /\ status[t] = "failed"

\* C10: when step k of the workflow fails the caller receives the trace so
\* far: exactly k entries, tagged with the agents of steps 1..k.
C10_TraceOnFailure ==
    \A t \in TaskIds :
       (failed_step[t] # 0 /\ status[t] \in Terminal) =>
          (/\ result[t].kind = "workflow"
           /\ result[t].steps = SubSeq(Pipeline, 1, failed_step[t]))

\* the coordinate_workflow tasks put on the coordinator's queue
WorkflowTasks ==
    {t \in TaskIds : IsWorkflowTask(queue_of[t], type[t])}

\* C11: a full_content_workflow run in which no agent's handler fails
\* returns a trace of exactly 3 entries tagged content_creator,
\* seo_optimizer, social_media_manager in that order.
C11_FullPipelineTrace ==
    \A t \in WorkflowTasks :
       (/\ workflow_name[t] = "full_content_workflow"
        /\ status[t] \in Terminal
        /\ failed_step[t] = 0)
       => (/\ status[t] = "completed"
           /\ result[t] = Result("workflow", Pipeline))

\* C12: a workflow name that is not defined gives the sentinel
\* {status: unknown_workflow}: the call returns, it does not raise, and no
\* agent's handler is invoked, before or after it returns.
C12_UnknownWorkflowSentinel ==
    \A t \in WorkflowTasks :
       workflow_name[t] # "full_content_workflow" =>
          /\ step[t] = 0
          /\ outcome[t] # "raised"
          /\ status[t] \in Terminal =>
                (status[t] = "completed" /\ result[t].kind = "unknown_workflow")

\* a task with an unknown workflow name has ended, on a coordinator that has
\* no agents attribute
C12_Witness ==
    \E t \in WorkflowTasks :
       /\ workflow_name[t] = "newsletter_workflow"
       /\ status[t] \in Terminal
       /\ ~has_agents

\* C13: when the content provider fails, generate_content returns the
\* fallback text instead of raising: the task whose handler called it is
\* completed with the fallback content as its result, not failed, and it
\* leaves active_tasks.
C13_ProviderFailureDegrades ==
    [][\A t \in TaskIds :
          (fault'[t] = "provider_error" /\ fault[t] = None) =>
             /\ status[t] = "in_progress"
             /\ status'[t] = "completed"
             /\ outcome'[t] = "returned"
             /\ result'[t].kind = "fallback"
             /\ completed_at'[t] # None
             /\ \A a \in Agents : t \notin active_tasks'[a]]_vars

\* a blog post task whose provider call failed is completed with the
\* fallback content
C13_Witness ==
    \E t \in TaskIds :
       /\ fault[t] = "provider_error" /\ type[t] = "create_blog_post"
       /\ status[t] = "completed" /\ result[t].kind = "fallback"

\* C14: when the tool a handler invokes fails, the task ends failed; a tool
\* failure never yields a completed task.
C14_ToolFailureFails ==
    \A t \in TaskIds :
       (fault[t] = "tool_error" /\ status[t] \in Terminal) => status[t] = "failed"

\* C15: submit never blocks and always succeeds, whatever the depth of the
\* queue and the number of tasks in flight (the ceiling does not bound the
\* backlog): while the model has a Task left to create, every submission is
\* possible on every agent.  It puts the task at the tail of that agent's
\* queue with status pending and changes no other queue, no in-flight set,
\* no created handler and no other task.  (An agent is never shut down in
\* the source, so the submission has no failing case.)
C15_SubmitNeverBlocks ==
    /\ [](next_id <= MaxTasks =>
            \A s \in Submissions : ENABLED submit(s[1], s[2], s[3]))
    /\ [][next_id' # next_id =>
            LET t == next_id
                a == queue_of'[t] IN
            /\ task_queue'[a] = Append(task_queue[a], t)
            /\ \A b \in Agents \ {a} : task_queue'[b] = task_queue[b]
            /\ status'[t] = "pending"
            /\ active_tasks' = active_tasks /\ scheduled' = scheduled
            /\ \A u \in TaskIds \ {t} :
                  /\ status'[u] = status[u] /\ result'[u] = result[u]
                  /\ queue_of'[u] = queue_of[u] /\ type'[u] = type[u]]_vars

\* a task was put on the queue of an agent that was at its ceiling and had
\* a backlog already
C15_Witness ==
    \E a \in Agents :
       /\ Cardinality(active_tasks[a]) >= max_concurrent_tasks
       /\ Len(task_queue[a]) >= 2
       /\ task_queue[a][Len(task_queue[a])] = next_id - 1
       /\ ~requeued[next_id - 1]

\* the workflow names that workflow_mapping maps to an agent
MappedWorkflows ==
    {"content_creation_workflow", "seo_optimization_workflow",
     "social_media_workflow", "analytics_workflow"}

\* C16: a lookup by a name that names no registered agent fails with
\* AgentNotFound: a request whose name maps to no agent is never served by
\* another agent or by a fallback path.
C16_UnregisteredNameFails ==
    (/\ response.op = "execute_workflow"
     /\ \/ response.workflow_name \notin MappedWorkflows
        \/ workflow_mapping(response.workflow_name) \notin RegisteredNames)
    => response.status = "AgentNotFound"

\* C17: the task id the execute entry point returns with status queued is
\* the id of a Task that was put on an agent's queue, and asking for the
\* details of that id does not answer "Task not found".
C17_ReturnedIdIsQueuedTask ==
    /\ (response.op = "execute_workflow" /\ response.status = "queued") =>
          /\ response.task_id \in TaskIds
          /\ queue_of[response.task_id] \in Agents
    /\ (response.op = "get_task_details" /\ response.task_id = uuid4) =>
          response.status # "Task not found"

\* C18: the list of agents has exactly one entry per registered agent, the
\* coordinator included once, and each entry's active_tasks is the size
\* of that agent's active_tasks at the call.
C18_OneEntryPerAgent ==
    response.op = "get_agents_status" =>
       /\ \A n \in RegisteredNames :
             Cardinality({i \in DOMAIN response.entries :
                             response.entries[i].name = n}) = 1
       /\ \A i \in DOMAIN response.entries :
             /\ response.entries[i].name \in RegisteredNames
             /\ response.entries[i].active_tasks =
                   active_task_count(response.entries[i].name)

\* C19: ownership.  Every task that was submitted and is not completed or
\* failed is in exactly one place: on the queue of its agent, once, with
\* status pending and in no agent's active_tasks; or in the active_tasks of
\* exactly one agent and on no queue.
C19_SingleOwner ==
    \A t \in TaskIds :
       status[t] \in {"pending", "in_progress"} =>
          LET queued == {<<a, i>> \in Agents \X (1..MaxTasks) :
                            i <= Len(task_queue[a]) /\ task_queue[a][i] = t}
              owners == {a \in Agents : t \in active_tasks[a]} IN
          \/ /\ Cardinality(queued) = 1 /\ owners = {}
             /\ status[t] = "pending"
             /\ \A q \in queued : q[1] = queue_of[t]
          \/ /\ queued = {} /\ Cardinality(owners) = 1

\* C20: when the loop pops a task while active_tasks is at the ceiling, the
\* task is put back at the tail of the same queue, behind every task that
\* was pending; its status stays pending, and active_tasks, the created
\* handlers, the other queues and the order of the other queued tasks are
\* as before; the loop goes to sleep.
C20_RequeueAtCapacity ==
    [][\A a \in Agents :
          (/\ task_queue[a] # <<>>
           /\ Cardinality(active_tasks[a]) >= max_concurrent_tasks
           /\ run(a))
          => /\ task_queue'[a] = Append(Tail(task_queue[a]), Head(task_queue[a]))
             /\ requeued'[Head(task_queue[a])]
             /\ \A b \in Agents \ {a} : task_queue'[b] = task_queue[b]
             /\ status' = status /\ status[Head(task_queue[a])] = "pending"
             /\ active_tasks' = active_tasks /\ scheduled' = scheduled
             /\ loop'[a] = "in_sleep"]_vars

\* a task popped at capacity is back on the queue, behind another pending one
C20_Witness ==
    \E a \in Agents :
       /\ Len(task_queue[a]) >= 2
       /\ Cardinality(active_tasks[a]) >= max_concurrent_tasks
       /\ loop[a] = "in_sleep"
       /\ LET t == task_queue[a][Len(task_queue[a])] IN
             requeued[t] /\ status[t] = "pending" /\ t < task_queue[a][1]

\* the number of times task t occurs in the sequence q
Occurrences(q, t) == Cardinality({i \in 1..Len(q) : q[i] = t})

\* C21: the handler of a task is started at most once, however often the
\* task was requeued at capacity, and a task that was admitted is never on
\* the queue again: a pending task has exactly one admission ahead of it
\* (it is on its agent's queue once, or its handler is created once), a
\* task past pending has none.
C21_StartedAtMostOnce ==
    \A t \in TaskIds :
       /\ started[t] <= 1
       /\ status[t] # None =>
             LET a == queue_of[t] IN
             /\ started[t] = (IF status[t] = "pending" THEN 0 ELSE 1)
             /\ Occurrences(task_queue[a], t) + Occurrences(scheduled[a], t)
                   = 1 - started[t]
             /\ \A b \in Agents \ {a} :
                   Occurrences(task_queue[b], t) + Occurrences(scheduled[b], t) = 0

\* a task that was requeued at capacity has been started, once
C21_Witness ==
    \E t \in TaskIds :
       requeued[t] /\ started[t] = 1 /\ status[t] \in Terminal

\* C22: a task is in an agent's active_tasks if and only if it was put on
\* that agent's queue and its status is in_progress: lines 396-397 run
\* without a suspension between them, and so do the assignment of the
\* terminal status and the del of line 409.
C22_ActiveIffInProgress ==
    \A a \in Agents, t \in TaskIds :
       (t \in active_tasks[a]) <=> (status[t] = "in_progress" /\ queue_of[t] = a)

\* one task of an agent is in flight, another has ended and has left
\* active_tasks, a third is still pending
C22_Witness ==
    \E a \in Agents, t, u, w \in TaskIds :
       /\ queue_of[t] = a /\ queue_of[u] = a /\ queue_of[w] = a
       /\ t \in active_tasks[a] /\ status[t] = "in_progress"
       /\ status[u] \in Terminal /\ u \notin active_tasks[a]
       /\ status[w] = "pending" /\ w \notin active_tasks[a]

\* the agents the pipeline calls that have a queue in the model
Targets == {Pipeline[i] : i \in 1..Len(Pipeline)} \cap Agents

\* C23: the coordinator calls the handler of a step's agent directly.  A
\* step of the workflow, and the end of the workflow, change no queue, no
\* created handler and no active_tasks of a target agent; the first step
\* is invoked when the workflow's handler starts whatever the target has
\* in flight, and a later step can always follow a step that returned.
C23_StepsBypassAdmission ==
    /\ [](\A t \in WorkflowTasks :
             (status[t] = "in_progress" /\ step[t] \in 1..(Len(Pipeline) - 1))
                => ENABLED coordinate_workflow_step(t, "returns", 0))
    /\ [][\A t \in WorkflowTasks :
             /\ (step'[t] # step[t] \/ outcome'[t] # outcome[t]) =>
                   \A b \in Targets :
                      /\ task_queue'[b] = task_queue[b]
                      /\ scheduled'[b] = scheduled[b]
                      /\ active_tasks'[b] = active_tasks[b]
             /\ (/\ started'[t] # started[t]
                 /\ has_agents /\ workflow_name[t] = "full_content_workflow")
                   => step'[t] >= 1]_vars

\* the first step of a pipeline is running in content_creator's handler
\* while content_creator's own active_tasks is at the ceiling
C23_Witness ==
    \E t \in WorkflowTasks :
       /\ status[t] = "in_progress" /\ step[t] = 1
       /\ Cardinality(active_tasks[Pipeline[1]]) >= max_concurrent_tasks
       /\ t \notin active_tasks[Pipeline[1]]

\* C24: admission does not wait for execution.  Also when no handler ever
\* ends, every pending task is admitted or its agent reaches its ceiling:
\* handlers suspended on a collaborator, on this agent or on another, do
\* not stop the loop from admitting while there is room.
C24_AdmissionNotBlocked ==
    \A t \in TaskIds :
       (status[t] = "pending") ~>
          (\/ status[t] # "pending"
           \/ Cardinality(active_tasks[queue_of[t]]) >= max_concurrent_tasks)

\* with a ceiling of 2 or more, an agent has as many tasks in progress as
\* its ceiling, none of their handlers ended, while a task put on the
\* other agent's queue after them has completed
C24_Witness ==
    \E a, b \in Agents, u \in TaskIds :
       /\ a # b /\ max_concurrent_tasks >= 2
       /\ Cardinality(active_tasks[a]) = max_concurrent_tasks
       /\ \A t \in active_tasks[a] : status[t] = "in_progress" /\ t < u
       /\ queue_of[u] = b /\ status[u] = "completed"

\* C25: the steps of a workflow run one after the other with no retry.
\* The count of invoked steps only goes up, and only while no step has
\* failed and the run is not over, so no step is invoked twice; it goes up
\* by one between two suspensions of the run when every handler suspends
\* (outside demo mode), so step i+1 is invoked after step i returned; the
\* run is over (the task is failed, at the step that failed) once a step
\* has failed, and a run that completed the pipeline has invoked every
\* step.
C25_StepsInSequence ==
    /\ [](\A t \in WorkflowTasks :
             /\ failed_step[t] # 0 =>
                   (status[t] = "failed" /\ step[t] = failed_step[t])
             /\ (status[t] = "completed" /\ result[t].kind = "workflow")
                   => step[t] = Len(Pipeline)
             /\ status[t] = "pending" => step[t] = 0)
    /\ [][\A t \in TaskIds :
             step'[t] # step[t] =>
                /\ step'[t] > step[t]
                /\ outcome[t] = None /\ failed_step[t] = 0
                /\ status'[t] = "in_progress" => failed_step'[t] = 0
                /\ ~demo_mode => step'[t] = step[t] + 1]_vars

\* a run has invoked all three steps and completed, another stopped at its
\* first step
C25_Witness ==
    \E t, u \in WorkflowTasks :
       /\ status[t] = "completed" /\ step[t] = Len(Pipeline) /\ failed_step[t] = 0
       /\ status[u] = "failed" /\ step[u] = 1 /\ failed_step[u] = 1

\* C26: a task has a result if and only if its status is completed or
\* failed, and the result of a failed task is an error description.
C26_ResultIffTerminal ==
    \A t \in TaskIds :
       /\ (result[t].kind # "None") <=> (status[t] \in Terminal)
       /\ status[t] = "failed" => result[t].kind = "error"

\* C27: assigned_agent is None while the task is pending and is the name
\* of the agent that accepted the task from the moment the task is in that
\* agent's active_tasks on (in_progress, completed, failed).
C27_AssignedOnAcceptance ==
    \A t \in TaskIds :
       /\ status[t] = "pending" => assigned_agent[t] = None
       /\ status[t] \in {"in_progress"} \cup Terminal =>
             assigned_agent[t] = queue_of[t]

\* C28: when the tasks in flight at an agent fill its ceiling and their
\* handlers do not end, no pending task of that agent is admitted: from a
\* state in which the agent is at its ceiling, no step takes a pending
\* task of that agent out of pending.
C28_StuckSlotsStarve ==
    [][\A t \in TaskIds :
          (/\ status[t] = "pending"
           /\ Cardinality(active_tasks[queue_of[t]]) >= max_concurrent_tasks)
          => status'[t] = "pending"]_vars

\* C29: no rollback.  A document that was created stays: no step takes a
\* document away, and the stretch in which a workflow step fails, or in
\* which a task becomes failed, changes no other task's document and
\* leaves the document that step 1 created before the failing step.
C29_NoRollback ==
    [][/\ documents \subseteq documents'
       /\ \A t \in TaskIds :
             (\/ failed_step'[t] # failed_step[t]
              \/ (status'[t] = "failed" /\ status[t] # "failed"))
             => /\ documents' \ {t} = documents \ {t}
                /\ failed_step'[t] >= 2 => t \in documents']_vars

\* step 1 of a workflow created its document and a later step failed
C29_Witness ==
    \E t \in WorkflowTasks :
       t \in documents /\ status[t] = "failed" /\ failed_step[t] >= 2

\* C30: a coordinate_workflow task run by the coordinator's loop ends
\* failed with an error result exactly when a step of the workflow raised,
\* and completed otherwise (for an unknown workflow name with the
\* unknown_workflow sentinel); while its pipeline runs it is in the
\* coordinator's active_tasks, once.
C30_WorkflowTaskOutcome ==
    \A t \in WorkflowTasks :
       /\ status[t] \in Terminal =>
             /\ (status[t] = "failed") <=> (failed_step[t] # 0)
             /\ status[t] = "failed" => result[t].kind = "error"
             /\ (status[t] = "completed"
                   /\ workflow_name[t] # "full_content_workflow")
                   => result[t].kind = "unknown_workflow"
       /\ (status[t] = "in_progress" /\ step[t] >= 1) =>
             t \in active_tasks["coordinator"]
====
